---- MODULE Spec2Model ----
(***************************************************************************)
(* A model of make_feed.py: the feed aggregation run (main), its two       *)
(* extractors (parse_rss, parse_html), the dedup state file and the        *)
(* output feed file.                                                       *)
(*                                                                         *)
(* Strings are sequences of one-character strings; the Python value None   *)
(* is the one-element sequence <<"None">>.  A datetime is a record         *)
(* [aware, t]: aware tells whether it carries a tzinfo, t is its instant   *)
(* (aware) or its wall-clock reading (naive).  An item's summary takes no  *)
(* part in identifiers, dedup, ordering or truncation and is left out.     *)
(***************************************************************************)
EXTENDS Integers, Sequences, FiniteSets, TLC

\* Bounds of the model.
MaxRuns == 2
MaxSources == 2
MaxEntries == 2

\* cfg.get("limit", 60)
DefaultLimit == 60

\* (title or "")[:80]
GuidCut == 80

VARIABLES
    pc,         \* position of main: "idle", "loop", "save", "done", "aborted";
                \* in "aborted" the process has ended on an exception
    run,        \* number of runs started; also the clock read by datetime.now
    stateFile,  \* the persisted dedup state file
    outFile,    \* the output feed file
    seen,       \* main's dict seen (its key set)
    all_items,  \* main's list all_items
    i,          \* number of configured sources the loop has gone through
    limit,      \* the configured limit, read after the loop
    err,        \* the step at which the run raised, "none" otherwise
    kept,       \* history: all_items as collected, before sort and truncation
    firsts,     \* history: per identifier, the first item extracted in this run
    later,      \* history: an identifier was extracted again in this run,
                \* with another item than its first
    failed,     \* history: some source of this run raised
    state0,     \* history: the state file when the run started
    out0,       \* history: the output file when the run started
    prevDone    \* history: the previous run completed

vars == <<pc, run, stateFile, outFile, seen, all_items, i, limit, err,
          kept, firsts, later, failed, state0, out0, prevDone>>

----------------------------------------------------------------------------
\* Python values

None == <<"None">>

Truthy(x) == x # None /\ x # <<>>

\* a or b
Or(a, b) == IF Truthy(a) THEN a ELSE b

\* s[:n] for n >= 0
Take(s, n) == SubSeq(s, 1, IF n < Len(s) THEN n ELSE Len(s))

Untitled == <<"(", "u", "n", "t", "i", "t", "l", "e", "d", ")">>

Reverse(s) == [k \in 1..Len(s) |-> s[Len(s) + 1 - k]]

SeqsUpTo(S, n) == UNION {[1..k -> S] : k \in 0..n}

Range(s) == {s[k] : k \in 1..Len(s)}

----------------------------------------------------------------------------
\* Dates

\* datetime.now(timezone.utc): the clock stands still during a run and moves on
\* between runs; dated entries carry the times 1 and 2
UtcNow(clock) == [aware |-> TRUE, t |-> clock + 1]

\* A date text is absent ("none"), unparseable ("bad"), or denotes the time t
\* without a timezone ("naive") or with one ("aware").
NoDateText == [kind |-> "none", t |-> 0]
BadDateText == [kind |-> "bad", t |-> 0]
NaiveText(t) == [kind |-> "naive", t |-> t]
AwareText(t) == [kind |-> "aware", t |-> t]

\* dateparser.parse / strptime on a text that parses: a text without a
\* timezone gives a naive datetime
ParsedDate(text) == [aware |-> (text.kind = "aware"), t |-> text.t]

\* dt = None
NoDate == [aware |-> FALSE, t |-> 0 - 1]

\* parse_rss, lines 65-71
RssDate(text, clock) ==
    IF text.kind = "none" THEN UtcNow(clock)
    ELSE IF text.kind = "bad" THEN UtcNow(clock)
    ELSE ParsedDate(text)

\* parse_html, lines 113-130
HtmlDate(text, clock) ==
    LET dt == IF text.kind \in {"naive", "aware"} THEN ParsedDate(text) ELSE NoDate
    IN  IF dt = NoDate THEN UtcNow(clock) ELSE dt

----------------------------------------------------------------------------
\* Extraction

Base == <<"h">>
RelB == <<"b">>
UrlB == <<"h", "b">>
TitleT == <<"t">>
\* a title one character longer than the cut, and a guid text that is equal
\* to its first GuidCut characters
LongTitle == [k \in 1..(GuidCut + 1) |-> "t"]
GuidT == [k \in 1..GuidCut |-> "t"]

\* urljoin(base, href): an absolute href (it starts with the scheme "h") is
\* returned as it is, a relative one is resolved against base
urljoin(base, href) == IF href # <<>> /\ href[1] = "h" THEN href ELSE base \o href

\* One entry of a feed document: the text of its title, the href and text of
\* its first link tag (text = None: no link tag), the href of its
\* rel="alternate" link, the text of its id and guid tags and its date text.
RssEntry(title, href, text, alt, id, guid, date) ==
    [title |-> title, href |-> href, text |-> text, alt |-> alt,
     id |-> id, guid |-> guid, date |-> date]

\* An RSS item with guid, link href and title; an item with its link as text
\* alone; an Atom entry with an empty id whose only link is the alternate one,
\* dated without a timezone; an entry with none of them.
RssEntries ==
    { RssEntry(TitleT, UrlB, <<>>, None, None, GuidT, AwareText(1)),
      RssEntry(None, None, UrlB, None, None, None, AwareText(2)),
      RssEntry(TitleT, None, <<>>, UrlB, <<>>, None, NaiveText(1)),
      RssEntry(None, None, None, None, None, None, BadDateText) }

\* parse_rss, the body of its loop
parse_rss_entry(e, clock) ==
    LET title == e.title
        link0 == IF e.text # None THEN Or(e.href, e.text) ELSE None
        guid0 == IF e.id # None THEN e.id
                 ELSE IF e.guid # None THEN e.guid ELSE None
        dt    == RssDate(e.date, clock)
        link  == IF ~Truthy(link0) /\ Truthy(e.alt) THEN e.alt ELSE link0
        guid  == Or(Or(guid0, link), Take(Or(title, <<>>), GuidCut))
    IN  [title |-> Or(title, Untitled), link |-> Or(link, <<>>),
         guid |-> guid, date |-> dt]

parse_rss(entries, clock) ==
    [k \in 1..Len(entries) |-> parse_rss_entry(entries[k], clock)]

\* One block of an HTML listing: the text of its title element, the href of
\* its link element and its date text (None: no such element).
HtmlBlock(title, href, date) == [title |-> title, href |-> href, date |-> date]

\* A block with a long title alone, dated without a timezone; a block with a
\* relative link alone; a block with neither.
HtmlBlocks ==
    { HtmlBlock(LongTitle, None, NaiveText(2)),
      HtmlBlock(None, RelB, BadDateText),
      HtmlBlock(<<>>, None, NoDateText) }

\* parse_html, line 132: the block is dropped
html_skipped(b) ==
    LET link == IF Truthy(b.href) THEN urljoin(Base, b.href) ELSE None
    IN  ~(Truthy(b.title) \/ Truthy(link))

\* parse_html, the body of its loop for a block that is not dropped
parse_html_block(b, clock) ==
    LET title == b.title
        link  == IF Truthy(b.href) THEN urljoin(Base, b.href) ELSE None
        dt    == HtmlDate(b.date, clock)
        guid  == Or(link, Take(Or(title, <<>>), GuidCut))
    IN  [title |-> Or(title, Untitled), link |-> Or(link, <<>>),
         guid |-> guid, date |-> dt]

RECURSIVE parse_html(_, _)
parse_html(blocks, clock) ==
    IF blocks = <<>> THEN <<>>
    ELSE IF html_skipped(Head(blocks)) THEN parse_html(Tail(blocks), clock)
    ELSE <<parse_html_block(Head(blocks), clock)>> \o parse_html(Tail(blocks), clock)

\* What one configured source gives in one run: its type, what fetch does,
\* whether the document parses, its entries, and (HTML) whether the source
\* has a list_selector.
Source(type, fetch, doc, sel, entries) ==
    [type |-> type, fetch |-> fetch, doc |-> doc, sel |-> sel, entries |-> entries]

Sources ==
    { Source("rss", "ok", "ok", FALSE, es) : es \in SeqsUpTo(RssEntries, MaxEntries) }
    \cup { Source("html", "ok", "ok", TRUE, bs) : bs \in SeqsUpTo(HtmlBlocks, MaxEntries) }
    \cup { Source(t, "error", "ok", TRUE, <<>>) : t \in {"rss", "html"} }
    \cup { Source(t, "ok", "malformed", TRUE, <<>>) : t \in {"rss", "html"} }
    \cup { Source("html", "ok", "ok", FALSE, <<>>),
           Source("other", "ok", "ok", FALSE, <<>>) }

\* main, lines 176-184 and 190: the source raises
raises(src) ==
    /\ src.type \in {"rss", "html"}
    /\ \/ src.fetch = "error"
       \/ src.doc = "malformed"
       \/ src.type = "html" /\ ~src.sel

\* main, lines 177-181: the items of a source that does not raise
extract(src, clock) ==
    IF src.type = "rss" THEN parse_rss(src.entries, clock)
    ELSE parse_html(src.entries, clock)

----------------------------------------------------------------------------
\* Dedup, sort, truncation

\* lines 185-189 without the test of line 187
RECURSIVE KeepAll(_, _, _)
KeepAll(items, acc, s) ==
    IF items = <<>> THEN [all_items |-> acc, seen |-> s]
    ELSE KeepAll(Tail(items), Append(acc, Head(items)), s \cup {Head(items).guid})

\* lines 185-189 with the mark of line 189 put off to the end of the loop
RECURSIVE KeepUnmarked(_, _, _)
KeepUnmarked(items, acc, s) ==
    IF items = <<>> THEN [all_items |-> acc, seen |-> s \cup {acc[k].guid : k \in 1..Len(acc)}]
    ELSE IF Head(items).guid \notin s
         THEN KeepUnmarked(Tail(items), Append(acc, Head(items)), s)
         ELSE KeepUnmarked(Tail(items), acc, s)

\* main, lines 185-189
RECURSIVE KeepUnseen(_, _, _)
KeepUnseen(items, acc, s) ==
    IF items = <<>> THEN [all_items |-> acc, seen |-> s]
    ELSE LET it == Head(items)
         IN  IF it.guid \notin s
             THEN KeepUnseen(Tail(items), Append(acc, it), s \cup {it.guid})
             ELSE KeepUnseen(Tail(items), acc, s)

\* x["date"] < y["date"] raises TypeError for a naive and an aware datetime;
\* a sort of two or more items compares every item with another one
Comparable(l) == \A a, b \in 1..Len(l) : l[a].date.aware = l[b].date.aware

InsertAsc(s, x) ==
    SelectSeq(s, LAMBDA y : y.date.t <= x.date.t) \o <<x>>
        \o SelectSeq(s, LAMBDA y : y.date.t > x.date.t)

RECURSIVE StableSortAsc(_)
StableSortAsc(l) ==
    IF l = <<>> THEN <<>>
    ELSE InsertAsc(StableSortAsc(SubSeq(l, 1, Len(l) - 1)), l[Len(l)])

\* a descending sort that is the reverse of the ascending one
SortReversed(l) == Reverse(StableSortAsc(l))

\* list.sort(key=..., reverse=True): the list is reversed, sorted ascending
\* with a stable sort and reversed again
SortByDateDesc(l) == Reverse(StableSortAsc(Reverse(l)))

\* all_items[-limit:]
TruncateTail(l, n) == SubSeq(l, (IF n < Len(l) THEN Len(l) - n ELSE 0) + 1, Len(l))

\* all_items[:limit]
Truncate(l, n) == Take(l, n)

Limits == {0, 1, 2, DefaultLimit}

----------------------------------------------------------------------------
\* Files

NoFile == [status |-> "missing", seen |-> {}]
CorruptFile == [status |-> "corrupt", seen |-> {}]

\* save_state: the document json.dump writes
StateDoc(s) == [status |-> "ok", seen |-> s]

\* a run that starts from an empty seen set
LoadNothing(f) == {}

\* load_state and line 169, for a file that is missing or parses
LoadSeen(f) == IF f.status = "ok" THEN f.seen ELSE {}

NoFeed == [status |-> "missing", items |-> <<>>]

\* build_feed: the document written, the guid of each of its items
FeedDoc(items) ==
    [status |-> "ok",
     items |-> [k \in 1..Len(items) |->
                  [guid |-> items[k].guid]]]

\* a write that raised after the file was opened and truncated
PartialFeed == [status |-> "partial", items |-> <<>>]

Outcomes == {"ok", "open_error", "write_error"}

\* a build_feed whose exception is swallowed
AfterBuildAlways(outcome) == "save"

\* main, lines 199-202: save_state runs only after build_feed returned
AfterBuild(outcome) == IF outcome = "ok" THEN "save" ELSE "aborted"

----------------------------------------------------------------------------
\* The run

Init ==
    /\ pc = "idle"
    /\ run = 0
    /\ stateFile = NoFile
    /\ outFile = NoFeed
    /\ seen = {}
    /\ all_items = <<>>
    /\ i = 0
    /\ limit = 0
    /\ err = "none"
    /\ kept = <<>>
    /\ firsts = {}
    /\ later = FALSE
    /\ failed = FALSE
    /\ state0 = NoFile
    /\ out0 = NoFeed
    /\ prevDone = FALSE

\* main, lines 165-171
StartRun ==
    /\ pc \in {"idle", "done", "aborted"}
    /\ run < MaxRuns
    /\ run' = run + 1
    /\ state0' = stateFile
    /\ out0' = outFile
    /\ prevDone' = (pc = "done")
    /\ failed' = FALSE
    /\ IF stateFile.status = "corrupt"
       THEN /\ pc' = "aborted"
            /\ err' = "load_state"
            /\ seen' = {}
       ELSE /\ pc' = "loop"
            /\ err' = "none"
            /\ seen' = LoadSeen(stateFile)
    /\ all_items' = <<>>
    /\ i' = 0
    /\ limit' = 0
    /\ kept' = <<>>
    /\ firsts' = {}
    /\ later' = FALSE
    /\ UNCHANGED <<stateFile, outFile>>

\* the first item of each identifier that items brings and firsts lacks
NewFirsts(items, f) ==
    { items[k] : k \in { n \in 1..Len(items) :
        /\ \A x \in f : x.guid # items[n].guid
        /\ \A m \in 1..(n - 1) : items[m].guid # items[n].guid } }

\* main, lines 172-192: one iteration of the loop over the sources
ProcessSource(src) ==
    /\ pc = "loop"
    /\ i < MaxSources
    /\ i' = i + 1
    /\ IF src.type \notin {"rss", "html"}
       THEN UNCHANGED <<all_items, seen, firsts, later, failed>>
       ELSE IF raises(src)
       THEN /\ failed' = TRUE
            /\ UNCHANGED <<all_items, seen, firsts, later>>
       ELSE LET items == extract(src, run)
                r == KeepUnseen(items, all_items, seen)
            IN  /\ all_items' = r.all_items
                /\ seen' = r.seen
                /\ firsts' = firsts \cup NewFirsts(items, firsts)
                /\ later' = (later \/ Range(items) \ firsts' # {})
                /\ UNCHANGED failed
    /\ UNCHANGED <<pc, run, stateFile, outFile, limit, err, kept, state0, out0, prevDone>>

\* the process has ended: main's variables are gone
Exit ==
    /\ seen' = {}
    /\ all_items' = <<>>
    /\ i' = 0
    /\ limit' = 0
    /\ kept' = <<>>
    /\ firsts' = {}
    /\ later' = FALSE

\* main, lines 194-199: sort, truncate, build_feed
WriteFeed(n, outcome) ==
    /\ pc = "loop"
    /\ IF ~Comparable(all_items)
       THEN /\ pc' = "aborted"
            /\ err' = "sort"
            /\ Exit
            /\ UNCHANGED outFile
       ELSE LET emitted == Truncate(SortByDateDesc(all_items), n)
            IN  /\ pc' = AfterBuild(outcome)
                /\ err' = IF outcome = "ok" THEN "none" ELSE "build_feed"
                /\ outFile' = IF outcome = "ok" THEN FeedDoc(emitted)
                              ELSE IF outcome = "write_error" THEN PartialFeed
                              ELSE outFile
                /\ IF AfterBuild(outcome) = "aborted"
                   THEN Exit
                   ELSE /\ limit' = n
                        /\ kept' = all_items
                        /\ all_items' = emitted
                        /\ UNCHANGED <<seen, i, firsts, later>>
    /\ UNCHANGED <<run, stateFile, failed, state0, out0, prevDone>>

\* main, lines 201-202: save_state
SaveState(outcome) ==
    /\ pc = "save"
    /\ pc' = IF outcome = "ok" THEN "done" ELSE "aborted"
    /\ err' = IF outcome = "ok" THEN "none" ELSE "save_state"
    /\ stateFile' = IF outcome = "ok" THEN StateDoc(seen)
                    ELSE IF outcome = "write_error" THEN CorruptFile
                    ELSE stateFile
    /\ IF outcome = "ok"
       THEN UNCHANGED <<seen, all_items, i, limit, kept, firsts, later>>
       ELSE Exit
    /\ UNCHANGED <<run, outFile, failed, state0, out0, prevDone>>

Next ==
    \/ StartRun
    \/ \E src \in Sources : ProcessSource(src)
    \/ \E n \in Limits, outcome \in Outcomes : WriteFeed(n, outcome)
    \/ \E outcome \in Outcomes : SaveState(outcome)

Spec == Init /\ [][Next]_vars

----------------------------------------------------------------------------
\* Properties

Guids(l) == {l[k].guid : k \in 1..Len(l)}

Pos(l, x) == CHOOSE k \in 1..Len(l) : l[k] = x

Min(a, b) == IF a < b THEN a ELSE b

FeedWritten == pc \in {"save", "done"}

\* build_feed has returned in this run.
FeedReturned == FeedWritten \/ (pc = "aborted" /\ err = "save_state")

\* The unseen items collected in the run, in collection order.
Collected == IF pc = "loop" THEN all_items ELSE kept

\* C1: when the previous run completed, no identifier of the feed it wrote is
\* in the feed this run writes, whatever the sources return.
C1_MonotoneDedup ==
    (FeedWritten /\ prevDone) =>
        Guids(outFile.items) \cap Guids(out0.items) = {}

\* C1: a second run has written a non-empty feed although its sources brought
\* again an identifier of the first run's feed.
C1_Witness ==
    /\ pc = "done" /\ prevDone
    /\ outFile.items # <<>>
    /\ \E f \in firsts : f.guid \in Guids(out0.items)

\* C2: a source that raises adds no item and the loop goes on (the collected
\* items are those of the other sources), and a run with such a source does
\* not end before the feed-write step.
C2_FailureIsolation ==
    /\ (failed /\ pc \in {"loop", "save", "done"}) =>
          Range(Collected) = {f \in firsts : f.guid \notin state0.seen}
    /\ (failed /\ pc = "aborted") => err \in {"build_feed", "save_state"}

\* C3: of the items extracted in a run under one identifier exactly one is
\* kept, the first one met, and none when the identifier was in the loaded
\* seen set.
C3_FirstOccurrenceWins ==
    pc \in {"loop", "save", "done"} =>
        /\ Cardinality(Guids(Collected)) = Len(Collected)
        /\ Range(Collected) = {f \in firsts : f.guid \notin state0.seen}

\* C3: an identifier came again with another item, one identifier met was in
\* the loaded seen set, and an item is kept.
C3_Witness ==
    /\ pc = "loop" /\ later
    /\ \E f \in firsts : f.guid \in state0.seen
    /\ all_items # <<>>

\* C4: the emitted list has min(limit, n) of the n collected unseen items and
\* none of them is older than a collected item that is not emitted.
C4_TruncationKeepsRecent ==
    FeedWritten =>
        /\ Len(all_items) = Min(limit, Len(kept))
        /\ Range(all_items) \subseteq Range(kept)
        /\ \A e \in Range(all_items), d \in Range(kept) \ Range(all_items) :
              e.date.t >= d.date.t

\* C4: a truncation that drops an older item collected before a newer one.
C4_Witness ==
    /\ pc = "save"
    /\ limit >= 1 /\ limit < Len(kept)
    /\ \E a, b \in 1..Len(kept) :
          /\ a < b
          /\ kept[a].date.t < kept[b].date.t
          /\ kept[a] \notin Range(all_items)
          /\ kept[b] \in Range(all_items)

\* C5 as stated: a run that aborts has modified neither file.
C5_RunAtomicity ==
    pc = "aborted" => (outFile = out0 /\ stateFile = state0)

\* C5 amended: until the feed-write step both files are as the run found them,
\* a run that aborts before that step leaves both so, and the state file is
\* changed only by a run whose feed write completed.
C5_AtomicBeforeWrite ==
    /\ pc = "loop" => (outFile = out0 /\ stateFile = state0)
    /\ (pc = "aborted" /\ err \in {"load_state", "sort"}) =>
          (outFile = out0 /\ stateFile = state0)
    /\ stateFile # state0 => (FeedReturned /\ outFile.status = "ok")

\* C5: a run aborted by the sort with both files present and untouched.
C5_Witness ==
    /\ pc = "aborted" /\ err = "sort"
    /\ out0.status = "ok" /\ state0.status = "ok"
    /\ outFile = out0 /\ stateFile = state0

\* C6: every item carries a timezone-aware timestamp and the sort does not
\* fail.
C6_AwareTimestamps ==
    /\ \A k \in 1..Len(all_items) : all_items[k].date.aware
    /\ err # "sort"

\* C7: every item has a non-empty identifier.
C7_NonEmptyIdentifier ==
    \A k \in 1..Len(all_items) : all_items[k].guid # <<>>

\* C8: after a completed run the persisted seen set is the loaded one united
\* with the identifiers of all unseen items collected, truncated or not.
C8_PersistedSeen ==
    pc = "done" =>
        /\ stateFile.status = "ok"
        /\ stateFile.seen = state0.seen \cup Guids(kept)

\* C8: a completed run that loaded identifiers, had a source raise and
\* truncated collected items out of the feed.
C8_Witness ==
    /\ pc = "done" /\ failed
    /\ state0.seen # {}
    /\ Len(all_items) < Len(kept)

\* C9: a run that finds a corrupt state file goes on as with no prior state.
C9_CorruptStateNotFatal ==
    (pc # "idle" /\ state0.status = "corrupt") =>
        ~(pc = "aborted" /\ err = "load_state")

\* C10: the emitted list is in descending order of timestamp, items of equal
\* timestamp are in collection order, and sorting it again changes nothing.
C10_OutputOrder ==
    FeedWritten =>
        /\ \A a, b \in 1..Len(all_items) :
              a < b =>
                /\ all_items[a].date.t >= all_items[b].date.t
                /\ all_items[a].date.t = all_items[b].date.t =>
                      Pos(kept, all_items[a]) < Pos(kept, all_items[b])
        /\ SortByDateDesc(all_items) = all_items

\* C10: an emitted list with two items of equal timestamp followed by an
\* older item that was collected before them.
C10_Witness ==
    /\ pc = "save"
    /\ \E a, b, c \in 1..Len(all_items) :
          /\ a < b /\ b < c
          /\ all_items[a].date.t = all_items[b].date.t
          /\ all_items[b].date.t > all_items[c].date.t
          /\ Pos(kept, all_items[c]) < Pos(kept, all_items[a])

====
